---- MODULE Spec2Model ----
(***************************************************************************)
(* Model of the streaming transcription engine of scout-claims:            *)
(* FireworksTranscription (src/src/modules/transcription.py) and the live  *)
(* audio path of ClaimsAssistantApp (src/src/app.py).                      *)
(*                                                                         *)
(* Strings are sequences of one-character strings, so that str.strip(),    *)
(* " ".join() and int() are computed, not assumed.  A segment id is the   *)
(* decimal text of the JSON id (int() gives the same number for the JSON   *)
(* integer 10 and the JSON string "10"); ids are taken in canonical form,  *)
(* one key per number.                                                     *)
(*                                                                         *)
(* Threads: one caller thread (the UI or a batch caller) and one receive   *)
(* thread per WebSocketApp.  A callback (_on_open, _on_message) and a      *)
(* caller's call run as one step, except where the code blocks:            *)
(* the polling loop of _connect, the chunk loop of _stream_audio_file and  *)
(* the completion loop of transcribe_audio_file yield at each time.sleep.  *)
(* SpecLock follows _on_message one statement at a time inside self.lock.  *)
(* SpecPacer and SpecResample compute the chunk slicing and the resampled  *)
(* length on their own, from bounded sets of recordings.                   *)
(***************************************************************************)
EXTENDS Integers, Sequences, FiniteSets, TLC

\* ------------------------------------------------------------------ bounds
\* Segments carried by one inbound frame.
MaxSegs == 2
\* WebSocketApp objects one engine instance creates in a run.
MaxSockets == 2
\* Iterations of the 0.1 s polling loop before the 5 s timeout (50 in the code).
ConnectPolls == 2
\* Frames recorded on the wire.
MaxWire == 2
\* Chunks of 1600 bytes in a recording handed to transcribe_audio_file.
MaxChunks == 2
\* Iterations of the 0.1 s completion loop before the 30 s ceiling (300 in the
\* code).
WaitPolls == 2
\* How far, in samples, a streamed recording lies from a whole number of chunks.
Spread == 8
\* Samples in a frame handed to the resampling step.
MaxSamples == 24

\* ------------------------------------------------------------ text helpers
Space == " "
\* A JSON value that is not a string (null, a number): it has no .strip().
JsonNull == <<"null">>
IsStr(t) == t # JsonNull

RECURSIVE LStrip(_)
LStrip(t) == IF t # <<>> /\ Head(t) = Space THEN LStrip(Tail(t)) ELSE t

RECURSIVE RStrip(_)
RStrip(t) ==
  IF t # <<>> /\ t[Len(t)] = Space THEN RStrip(SubSeq(t, 1, Len(t) - 1)) ELSE t

\* str.strip(): leading and trailing whitespace removed.
Strip(t) == RStrip(LStrip(t))

\* The truth value of text.strip(): a text with a non-whitespace character.
Truthy(t) == Strip(t) # <<>>

\* sep.join(parts)
RECURSIVE Join(_, _)
Join(sep, parts) ==
  IF parts = <<>> THEN <<>>
  ELSE IF Len(parts) = 1 THEN parts[1]
  ELSE parts[1] \o sep \o Join(sep, Tail(parts))

\* ------------------------------------------------------------- segment ids
DigitValue(c) ==
  CASE c = "0" -> 0 [] c = "1" -> 1 [] c = "2" -> 2 [] c = "3" -> 3
    [] c = "4" -> 4 [] c = "5" -> 5 [] c = "6" -> 6 [] c = "7" -> 7
    [] c = "8" -> 8 [] c = "9" -> 9 [] OTHER -> 0 - 1

\* Whether int(key) returns: a non-empty run of decimal digits.
IsNumeric(k) == k # <<>> /\ \A i \in 1..Len(k) : DigitValue(k[i]) >= 0

\* int(key) of a numeric key.
RECURSIVE IntOf(_)
IntOf(k) ==
  IF k = <<>> THEN 0
  ELSE 10 * IntOf(SubSeq(k, 1, Len(k) - 1)) + DigitValue(k[Len(k)])

\* --------------------------------------------------------- inbound frames
\* An element of data["segments"]: a JSON object that may lack a key.
Segment(i, t) == [has_id |-> TRUE, id |-> i, has_text |-> TRUE, text |-> t]
NoTextEntry(i) == [has_id |-> TRUE, id |-> i, has_text |-> FALSE, text |-> <<>>]
NoIdEntry == [has_id |-> FALSE, id |-> <<>>, has_text |-> FALSE, text |-> <<>>]

\* Frames as json.loads sees them: text that does not parse, JSON that is not
\* an object, and an object with its checkpoint_id and segments keys.
GarbageFrame ==
  [kind |-> "garbage", checkpoint |-> "none", has_segments |-> FALSE, segs |-> <<>>]
NonObjectFrame ==
  [kind |-> "nonobject", checkpoint |-> "none", has_segments |-> FALSE, segs |-> <<>>]
FinalFrame ==
  [kind |-> "object", checkpoint |-> "final", has_segments |-> FALSE, segs |-> <<>>]
OtherCheckpointFrame ==
  [kind |-> "object", checkpoint |-> "other", has_segments |-> FALSE, segs |-> <<>>]
SegmentsFrame(entries) ==
  [kind |-> "object", checkpoint |-> "none", has_segments |-> TRUE, segs |-> entries]
\* A final checkpoint echo that also carries segments.
FinalWithSegments(entries) ==
  [kind |-> "object", checkpoint |-> "final", has_segments |-> TRUE, segs |-> entries]

\* Sample ids: 2 < 10 as numbers and "10" < "2" as text; "x" is not a number.
ValidIds == {<<"2">>, <<"1", "0">>}
BadId == <<"x">>
\* Sample texts: empty, whitespace only, two words, one with a leading space.
TextSamples == {<<>>, <<" ">>, <<"h">>, <<" ", "w">>}

EntrySamples ==
  {Segment(i, t) : i \in ValidIds, t \in TextSamples}
    \cup {Segment(BadId, <<"h">>), Segment(<<"2">>, JsonNull),
          NoTextEntry(<<"1", "0">>), NoIdEntry}
WellFormedEntries == {Segment(i, t) : i \in ValidIds, t \in TextSamples}

\* Sequences of at most n elements of S.
SeqsUpTo(S, n) == UNION {[1..k -> S] : k \in 0..n}

\* ------------------------------------------------- the segment assembler
NoSegments == [k \in {} |-> <<>>]

\* Faulty variant: the first text of an id is kept (dict.setdefault).
StoreSegmentKeepFirst(segs, e) ==
  [k \in DOMAIN segs \cup {e.id} |-> IF k \in DOMAIN segs THEN segs[k] ELSE e.text]

\* Faulty variant: the text is appended to the one already stored (+=).
StoreSegmentAppending(segs, e) ==
  [k \in DOMAIN segs \cup {e.id} |->
     IF k # e.id THEN segs[k]
     ELSE IF k \in DOMAIN segs THEN segs[k] \o e.text ELSE e.text]

\* self.segments[segment_id] = text
StoreSegment(segs, e) ==
  [k \in DOMAIN segs \cup {e.id} |-> IF k = e.id THEN e.text ELSE segs[k]]

\* The for loop of _on_message: each entry in order; a missing key raises
\* KeyError and leaves the entries before it stored.
RECURSIVE UpdateSegments(_, _)
UpdateSegments(segs, entries) ==
  IF entries = <<>> THEN [segs |-> segs, raised |-> FALSE]
  ELSE LET e == Head(entries) IN
       IF ~e.has_id \/ ~e.has_text THEN [segs |-> segs, raised |-> TRUE]
       ELSE UpdateSegments(StoreSegment(segs, e), Tail(entries))

\* The order of two keys as text.
RECURSIVE TextLeq(_, _)
TextLeq(a, b) ==
  IF a = <<>> THEN TRUE
  ELSE IF b = <<>> THEN FALSE
  ELSE IF DigitValue(Head(a)) # DigitValue(Head(b))
    THEN DigitValue(Head(a)) < DigitValue(Head(b))
  ELSE TextLeq(Tail(a), Tail(b))

\* Faulty variant: sorted(keys), the keys compared as text.
RECURSIVE SortedKeysAsText(_)
SortedKeysAsText(K) ==
  IF K = {} THEN <<>>
  ELSE LET m == CHOOSE x \in K : \A y \in K : TextLeq(x, y)
       IN <<m>> \o SortedKeysAsText(K \ {m})

\* sorted(keys, key=int): the keys by ascending int(key).
RECURSIVE SortedKeys(_)
SortedKeys(K) ==
  IF K = {} THEN <<>>
  ELSE LET m == CHOOSE x \in K : \A y \in K : IntOf(x) <= IntOf(y)
       IN <<m>> \o SortedKeys(K \ {m})

\* The texts the generator of " ".join keeps: those with text.strip().
RECURSIVE KeptTexts(_, _)
KeptTexts(segs, keys) ==
  IF keys = <<>> THEN <<>>
  ELSE (IF Truthy(segs[Head(keys)]) THEN <<segs[Head(keys)]>> ELSE <<>>)
         \o KeptTexts(segs, Tail(keys))

\* _build_complete_text: raises when int(key) or text.strip() raises.
BuildCompleteText(segs) ==
  IF DOMAIN segs = {} THEN [raised |-> FALSE, text |-> <<>>]
  ELSE IF \E k \in DOMAIN segs : ~IsNumeric(k) THEN [raised |-> TRUE, text |-> <<>>]
  ELSE IF \E k \in DOMAIN segs : ~IsStr(segs[k]) THEN [raised |-> TRUE, text |-> <<>>]
  ELSE [raised |-> FALSE,
        text |-> Join(<<Space>>, KeptTexts(segs, SortedKeys(DOMAIN segs)))]

\* What a call of _on_message that changes nothing gives, printing line.
Ignored(segs, line) ==
  [segs |-> segs, disconnect |-> FALSE, notify |-> FALSE, text |-> <<>>,
   line |-> line]

\* Faulty variant: the handler of a parse failure starts the map afresh.
OnParseFailureResets(segs) == Ignored(NoSegments, "parse_failed")

\* Lines 199-200: except json.JSONDecodeError prints and returns.
OnParseFailure(segs) == Ignored(segs, "parse_failed")

\* Faulty variant: the marker is looked up under another key and never found.
IsFinalCheckpointNever(frame) == FALSE

\* Line 179: data.get("checkpoint_id") == "final"
IsFinalCheckpoint(frame) == frame.checkpoint = "final"

\* What one call of _on_message does with a frame: the segment map after it,
\* whether it called _disconnect, the text handed to the callback (notify),
\* and the line it printed.
OnMessageOutcome(segs, has_callback, frame) ==
  IF frame.kind = "garbage" THEN OnParseFailure(segs)
  ELSE IF frame.kind = "nonobject" THEN Ignored(segs, "processing_error")
  ELSE IF IsFinalCheckpoint(frame)
    THEN [segs |-> segs, disconnect |-> TRUE, notify |-> FALSE,
          text |-> <<>>, line |-> "none"]
  ELSE IF ~frame.has_segments THEN Ignored(segs, "none")
  ELSE LET u == UpdateSegments(segs, frame.segs)
           b == BuildCompleteText(u.segs)
       IN IF u.raised \/ b.raised
            THEN [segs |-> u.segs, disconnect |-> FALSE, notify |-> FALSE,
                  text |-> <<>>, line |-> "processing_error"]
          ELSE [segs |-> u.segs, disconnect |-> FALSE,
                notify |-> has_callback /\ Truthy(b.text),
                text |-> b.text, line |-> "none"]

\* ------------------------------------------------------------------ state
VARIABLES
  websocket_client,       \* self.websocket_client: 0 is None, else a socket
  is_connected,           \* self.is_connected
  segments,               \* self.segments: id text -> text
  stop_event,             \* self._stop_event.is_set()
  transcription_callback, \* whether self.transcription_callback is set
  sock,                   \* each WebSocketApp and its run_forever thread
  pc,                     \* where the caller thread is
  polls,                  \* sleeps done by the polling loop of _connect
  in_feed,                \* whether _connect runs inside process_audio_stream
  cur,                    \* the audio frame process_audio_stream is handling
  batch,                  \* the transcribe_audio_file call in progress, if any
  lock,                   \* self.lock, and the message its holder is applying
  calls,                  \* texts the last _on_message handed to the callback
  wire,                   \* frames sent, in order (in the batch path: since
                          \* the last transcribe_audio_file began)
  last,                   \* the last call that returned, and its result
                          \* (of _disconnect: whether it had a socket to close)
  log,                    \* the last line printed
  transcription_service,  \* app: whether the engine instance was created
  is_recording,           \* app: self.is_recording
  live_transcription,     \* app: self.live_transcription
  latest,                 \* the latest text the service sent for each id number
  tainted,                \* whether a frame with an ill-formed segment came
  echo_closed,            \* the service sent the checkpoint echo in this session
  stage,                  \* how far the audio preparation under study has got
  sample_rate,            \* the rate of the audio as it was read
  audio_len,              \* len(audio_data)
  audio_bytes,            \* the int16 bytes handed to the chunk loop
  offset,                 \* i of the chunk loop
  chunks_sent             \* the chunks the loop handed to _send_audio_chunk

engine == <<websocket_client, is_connected, segments, stop_event,
            transcription_callback>>
app == <<transcription_service, is_recording, live_transcription>>
ghost == <<latest, tainted>>
rx == <<lock, calls>>
audio == <<stage, sample_rate, audio_len, audio_bytes, offset, chunks_sent>>
vars == <<websocket_client, is_connected, segments, stop_event,
          transcription_callback, sock, pc, polls, in_feed, cur, batch, lock,
          calls, wire, last, log, transcription_service, is_recording,
          live_transcription, latest, tainted, echo_closed, stage, sample_rate,
          audio_len, audio_bytes, offset, chunks_sent>>

Sockets == 1..MaxSockets
None == 0
NoFrame == [held |-> FALSE, samples |-> <<>>]
NoCall == [op |-> "none", ok |-> FALSE]
NoBatch == [on |-> FALSE, readable |-> FALSE, n |-> 0, next |-> 0, waits |-> 0]
FreeLock == [held |-> FALSE, by |-> 0, rest |-> <<>>, before |-> NoSegments,
             all |-> <<>>, blocked |-> FALSE]

\* No audio is being prepared.
NoAudio ==
  /\ stage = "none"
  /\ sample_rate = 0
  /\ audio_len = 0
  /\ audio_bytes = <<>>
  /\ offset = 0
  /\ chunks_sent = <<>>

\* FireworksTranscription.__init__ and ClaimsAssistantApp.__init__
InitEngine ==
  /\ websocket_client = None
  /\ is_connected = FALSE
  /\ segments = NoSegments
  /\ stop_event = FALSE
  /\ transcription_callback = FALSE
  /\ sock = [s \in Sockets |-> "unused"]
  /\ pc = "idle"
  /\ polls = 0
  /\ in_feed = FALSE
  /\ cur = NoFrame
  /\ batch = NoBatch
  /\ lock = FreeLock
  /\ calls = <<>>
  /\ wire = <<>>
  /\ last = NoCall
  /\ log = "none"
  /\ transcription_service = FALSE
  /\ is_recording = FALSE
  /\ live_transcription = <<>>
  /\ latest = [n \in {} |-> <<>>]
  /\ tainted = FALSE
  /\ echo_closed = FALSE

Init == InitEngine /\ NoAudio

\* The connection as the code tests it before a send (line 146).
Connected == is_connected /\ websocket_client # None

\* ------------------------------------------------------------- _disconnect
\* Socket states: "unused", "connecting" (handshake in progress), "open",
\* "failed" (never opened), "closed" (was open).
\* WebSocketApp.close() on a socket: an open socket is closed; a handshake in
\* progress in the other thread is either aborted or not reached by the close.
CloseOutcomes(st) ==
  IF st = "connecting" THEN {"failed", "connecting"}
  ELSE IF st = "open" THEN {"closed"}
  ELSE {st}

\* Faulty variant: the closed socket is kept in websocket_client.
DisconnectEffectKeepsSocket ==
  /\ stop_event' = TRUE
  /\ is_connected' = FALSE
  /\ websocket_client' = websocket_client
  /\ IF websocket_client = None
       THEN sock' = sock
       ELSE \E st \in CloseOutcomes(sock[websocket_client]) :
              sock' = [sock EXCEPT ![websocket_client] = st]

\* _disconnect: set the stop event, clear the flag, close and drop the socket.
DisconnectEffect ==
  /\ stop_event' = TRUE
  /\ is_connected' = FALSE
  /\ websocket_client' = None
  /\ IF websocket_client = None
       THEN sock' = sock
       ELSE \E st \in CloseOutcomes(sock[websocket_client]) :
              sock' = [sock EXCEPT ![websocket_client] = st]

\* A caller's _disconnect().
Disconnect ==
  /\ pc = "idle"
  /\ DisconnectEffect
  /\ last' = [op |-> "disconnect", ok |-> websocket_client # None]
  /\ UNCHANGED <<segments, transcription_callback, pc, polls, in_feed, cur, batch, rx, audio,
                 wire, log, app, ghost, echo_closed>>

\* ---------------------------------------------------------------- _connect
FreeSocket == CHOOSE s \in Sockets : sock[s] = "unused" /\
                \A t \in Sockets : sock[t] = "unused" => s <= t

\* Lines 56-71: a new WebSocketApp replaces websocket_client (the previous one
\* is not closed) and its thread starts; nothing else of the engine is reset.
ConnectStart ==
  /\ \E s \in Sockets : sock[s] = "unused"
  /\ websocket_client' = FreeSocket
  /\ sock' = [sock EXCEPT ![FreeSocket] = "connecting"]
  /\ pc' = "connect_wait"
  /\ polls' = 0
  /\ echo_closed' = FALSE

\* A caller's _connect().
ConnectBegin ==
  /\ pc = "idle"
  /\ ConnectStart
  /\ in_feed' = FALSE
  /\ UNCHANGED <<is_connected, segments, stop_event, transcription_callback,
                 cur, batch, rx, audio, wire, last, log, app, ghost>>

\* Lines 81-83: the thread cannot be started; the exception is printed and
\* _connect returns False with the unstarted WebSocketApp left in place.
ConnectRaises ==
  /\ pc = "idle"
  /\ \E s \in Sockets : sock[s] = "unused"
  /\ websocket_client' = FreeSocket
  /\ sock' = [sock EXCEPT ![FreeSocket] = "failed"]
  /\ log' = "connection_error"
  /\ last' = [op |-> "connect", ok |-> FALSE]
  /\ echo_closed' = FALSE
  /\ UNCHANGED <<is_connected, segments, stop_event, transcription_callback,
                 pc, polls, in_feed, cur, batch, rx, audio, wire, app, ghost>>

\* Faulty variant: the loop does not look at the elapsed time.
ConnectPollNoTimeout ==
  /\ pc = "connect_wait"
  /\ ~is_connected
  /\ polls' = polls + 1
  /\ UNCHANGED <<engine, sock, pc, in_feed, cur, batch, rx, audio, wire, last, log, app, ghost,
                 echo_closed>>

\* Lines 76-77: one turn of the loop that finds the flag clear and time left.
ConnectPoll ==
  /\ pc = "connect_wait"
  /\ ~is_connected
  /\ polls < ConnectPolls
  /\ polls' = polls + 1
  /\ UNCHANGED <<engine, sock, pc, in_feed, cur, batch, rx, audio, wire, last, log, app, ghost,
                 echo_closed>>

\* Line 76: the loop ends on the flag or on the timeout.
ConnectLoopExit ==
  /\ pc = "connect_wait"
  /\ is_connected \/ polls >= ConnectPolls
  /\ pc' = "connect_ret"
  /\ UNCHANGED <<engine, sock, polls, in_feed, cur, batch, rx, audio, wire, last, log, app,
                 ghost, echo_closed>>

\* Line 79: return self.is_connected, to a caller of _connect.
ConnectReturn ==
  /\ pc = "connect_ret"
  /\ ~in_feed /\ ~batch.on
  /\ last' = [op |-> "connect", ok |-> is_connected]
  /\ pc' = "idle"
  /\ UNCHANGED <<engine, sock, polls, in_feed, cur, batch, rx, audio, wire, log, app, ghost,
                 echo_closed>>

\* -------------------------------------------------------- _send_audio_chunk
Chunks == {"pcm"}

\* Faulty variant: the except branch returns True.
SendOutcomeHidesFailure(connected_flag, client, st) ==
  IF ~connected_flag \/ client = None THEN [ok |-> FALSE, frames |-> 0, line |-> "none"]
  ELSE IF st = "open" THEN [ok |-> TRUE, frames |-> 1, line |-> "none"]
  ELSE [ok |-> TRUE, frames |-> 0, line |-> "send_error"]

\* _send_audio_chunk: False when the flag is clear or there is no socket; else
\* websocket_client.send puts one frame on an open socket, or raises and the
\* exception is printed.
SendOutcome(connected_flag, client, st) ==
  IF ~connected_flag \/ client = None THEN [ok |-> FALSE, frames |-> 0, line |-> "none"]
  ELSE IF st = "open" THEN [ok |-> TRUE, frames |-> 1, line |-> "none"]
  ELSE [ok |-> FALSE, frames |-> 0, line |-> "send_error"]

ClientState == IF websocket_client = None THEN "none" ELSE sock[websocket_client]

\* The effect of one _send_audio_chunk(chunk) on the wire and the output.
SendEffect(chunk) ==
  LET o == SendOutcome(is_connected, websocket_client, ClientState)
  IN /\ wire' = IF o.frames = 1
                  THEN Append(wire, [sock |-> websocket_client,
                                     opcode |-> "binary", data |-> chunk])
                  ELSE wire
     /\ log' = IF o.line = "none" THEN log ELSE o.line

\* A caller's _send_audio_chunk(chunk).
SendAudioChunk(chunk) ==
  /\ pc = "idle"
  /\ Len(wire) < MaxWire
  /\ SendEffect(chunk)
  /\ last' = [op |-> "send",
              ok |-> SendOutcome(is_connected, websocket_client, ClientState).ok]
  /\ UNCHANGED <<engine, sock, pc, polls, in_feed, cur, batch, rx, audio, app, ghost, echo_closed>>

\* ---------------------------------------------------------- _get_final_text
\* A caller's _get_final_text(): "with self.lock" waits for the lock.
GetFinalText ==
  /\ pc = "idle"
  /\ ~lock.held
  /\ last' = [op |-> "get_final_text", ok |-> ~BuildCompleteText(segments).raised,
              text |-> BuildCompleteText(segments).text]
  /\ UNCHANGED <<engine, sock, pc, polls, in_feed, cur, batch, rx, audio, wire, log, app, ghost,
                 echo_closed>>

\* ------------------------------------------------------- the receive thread
\* _on_open, called by run_forever when the handshake completes.
OnOpen(s) ==
  /\ sock[s] = "connecting"
  /\ sock' = [sock EXCEPT ![s] = "open"]
  /\ is_connected' = TRUE
  /\ log' = "connected"
  /\ UNCHANGED <<websocket_client, segments, stop_event, transcription_callback,
                 pc, polls, in_feed, cur, batch, rx, audio, wire, last, app, ghost, echo_closed>>

\* _on_error after a failed handshake: the error is printed, nothing else.
HandshakeFails(s) ==
  /\ sock[s] = "connecting"
  /\ sock' = [sock EXCEPT ![s] = "failed"]
  /\ log' = "websocket_error"
  /\ UNCHANGED <<engine, pc, polls, in_feed, cur, batch, rx, audio, wire, last, app, ghost,
                 echo_closed>>

\* The service or the network closes an open socket: no on_close handler is
\* registered, so the engine is not told.
RemoteClose(s) ==
  /\ sock[s] = "open"
  /\ sock' = [sock EXCEPT ![s] = "closed"]
  /\ UNCHANGED <<engine, pc, polls, in_feed, cur, batch, rx, audio, wire, last, log, app, ghost,
                 echo_closed>>

\* Whether every segment of a frame is a Segment of the data model: a numeric
\* id and a string text.
WellFormed(entries) ==
  \A i \in 1..Len(entries) :
    /\ entries[i].has_id /\ entries[i].has_text
    /\ IsNumeric(entries[i].id) /\ IsStr(entries[i].text)

\* The service's side of the exchange: the last text it sent for each number.
LatestAfter(lat, entries) ==
  LET sent == {IntOf(entries[i].id) : i \in 1..Len(entries)}
      lastAt(n) == CHOOSE i \in 1..Len(entries) :
                     /\ IntOf(entries[i].id) = n
                     /\ \A j \in 1..Len(entries) :
                          IntOf(entries[j].id) = n => j <= i
  IN [n \in DOMAIN lat \cup sent |->
        IF n \in sent THEN entries[lastAt(n)].text ELSE lat[n]]

CarriesSegments(frame) ==
  frame.kind = "object" /\ ~IsFinalCheckpoint(frame) /\ frame.has_segments

\* What the service sent as the echo of the end-of-stream checkpoint.
SentAsFinal(frame) == frame.kind = "object" /\ frame.checkpoint = "final"

\* The service's record of what it sent, kept while every frame is well formed.
ServiceSent(frame) ==
  IF ~CarriesSegments(frame) \/ tainted
    THEN UNCHANGED ghost
    ELSE IF WellFormed(frame.segs)
      THEN latest' = LatestAfter(latest, frame.segs) /\ tainted' = FALSE
      ELSE latest' = [n \in {} |-> <<>>] /\ tainted' = TRUE

\* _on_message(ws, message), called by run_forever for each inbound frame.
OnMessage(s, frame) ==
  LET o == OnMessageOutcome(segments, transcription_callback, frame) IN
  /\ sock[s] = "open"
  /\ CarriesSegments(frame) => ~lock.held
  /\ segments' = o.segs
  /\ IF o.disconnect
       THEN DisconnectEffect
       ELSE UNCHANGED <<websocket_client, is_connected, stop_event, sock>>
  /\ echo_closed' = (echo_closed \/ SentAsFinal(frame))
  /\ live_transcription' = IF o.notify THEN o.text ELSE live_transcription
  /\ calls' = IF o.notify THEN <<o.text>> ELSE <<>>
  /\ log' = IF o.line = "none" THEN log ELSE o.line
  /\ ServiceSent(frame)
  /\ UNCHANGED <<transcription_callback, pc, polls, in_feed, cur, batch, audio, lock,
                 wire, last, transcription_service, is_recording>>

\* ---------------------------------- _on_message, one statement at a time
\* set_callback(fn)
SetCallback ==
  /\ pc = "idle"
  /\ ~transcription_callback
  /\ transcription_callback' = TRUE
  /\ UNCHANGED <<websocket_client, is_connected, segments, stop_event, sock, pc,
                 polls, in_feed, cur, batch, rx, audio, wire, last, log, app, ghost,
                 echo_closed>>

\* The lock after its holder left the with block; the message the holder was
\* applying stays on record.
Unlocked(l) == [l EXCEPT !.held = FALSE, !.by = 0, !.rest = <<>>]

\* Lines 176-185: a frame with segments is parsed and the thread enters
\* "with self.lock", which it can do when no thread holds the lock.
RxAcquire(s, frame) ==
  /\ sock[s] = "open"
  /\ CarriesSegments(frame)
  /\ ~lock.held
  /\ lock' = [held |-> TRUE, by |-> s, rest |-> frame.segs,
              before |-> segments, all |-> frame.segs, blocked |-> FALSE]
  /\ calls' = <<>>
  /\ ServiceSent(frame)
  /\ UNCHANGED <<engine, sock, pc, polls, in_feed, cur, batch, audio, wire, last, log,
                 app, echo_closed>>

\* Lines 187-190: one turn of the for loop stores one segment.
RxStore ==
  /\ lock.held
  /\ lock.rest # <<>>
  /\ Head(lock.rest).has_id /\ Head(lock.rest).has_text
  /\ segments' = StoreSegment(segments, Head(lock.rest))
  /\ lock' = [lock EXCEPT !.rest = Tail(@)]
  /\ UNCHANGED <<websocket_client, is_connected, stop_event,
                 transcription_callback, sock, pc, polls, in_feed, cur, batch, audio,
                 calls, wire, last, log, app, ghost, echo_closed>>

\* Lines 188-189, 201-202: segment["id"] or segment["text"] raises KeyError;
\* the with block releases the lock and the exception is printed.
RxRaise ==
  /\ lock.held
  /\ lock.rest # <<>>
  /\ ~(Head(lock.rest).has_id /\ Head(lock.rest).has_text)
  /\ lock' = Unlocked(lock)
  /\ log' = "processing_error"
  /\ UNCHANGED <<engine, sock, pc, polls, in_feed, cur, batch, audio, calls, wire,
                 last, app, ghost, echo_closed>>

\* Faulty variant: the callback is called whatever the text.
RxFinishAlwaysNotifies(raises) ==
  LET b == BuildCompleteText(segments)
      notify == ~b.raised /\ transcription_callback
  IN /\ lock.held
     /\ lock.rest = <<>>
     /\ ~lock.blocked
     /\ lock' = Unlocked(lock)
     /\ calls' = IF notify THEN <<b.text>> ELSE <<>>
     /\ live_transcription' =
          IF notify /\ ~raises THEN b.text ELSE live_transcription
     /\ log' = IF b.raised \/ (notify /\ raises) THEN "processing_error" ELSE log
     /\ UNCHANGED <<engine, sock, pc, polls, in_feed, cur, batch, audio, wire, last,
                    transcription_service, is_recording, ghost, echo_closed>>

\* Faulty variant: an exception of the callback leaves the lock held.
RxFinishKeepsLockOnRaise(raises) ==
  LET b == BuildCompleteText(segments)
      notify == ~b.raised /\ transcription_callback /\ Truthy(b.text)
  IN /\ lock.held
     /\ lock.rest = <<>>
     /\ ~lock.blocked
     /\ lock' = IF notify /\ raises THEN lock ELSE Unlocked(lock)
     /\ calls' = IF notify THEN <<b.text>> ELSE <<>>
     /\ live_transcription' =
          IF notify /\ ~raises THEN b.text ELSE live_transcription
     /\ log' = IF b.raised \/ (notify /\ raises) THEN "processing_error" ELSE log
     /\ UNCHANGED <<engine, sock, pc, polls, in_feed, cur, batch, audio, wire, last,
                    transcription_service, is_recording, ghost, echo_closed>>

\* Lines 192-202: the loop is over; the text is built and, when a callback is
\* set and the text has a non-blank character, handed to the callback, which
\* returns or raises; the with block releases the lock either way and an
\* exception is printed.
RxFinish(raises) ==
  LET b == BuildCompleteText(segments)
      notify == ~b.raised /\ transcription_callback /\ Truthy(b.text)
  IN /\ lock.held
     /\ lock.rest = <<>>
     /\ ~lock.blocked
     /\ lock' = Unlocked(lock)
     /\ calls' = IF notify THEN <<b.text>> ELSE <<>>
     /\ live_transcription' =
          IF notify /\ ~raises THEN b.text ELSE live_transcription
     /\ log' = IF b.raised \/ (notify /\ raises) THEN "processing_error" ELSE log
     /\ UNCHANGED <<engine, sock, pc, polls, in_feed, cur, batch, audio, wire, last,
                    transcription_service, is_recording, ghost, echo_closed>>

\* Lines 196-197 with a callback that calls _get_final_text: line 218 asks for
\* self.lock in the thread that holds it, and a threading.Lock is not
\* reentrant, so the callback never returns.
CallbackReadsTranscript ==
  LET b == BuildCompleteText(segments)
      notify == ~b.raised /\ transcription_callback /\ Truthy(b.text)
  IN /\ lock.held
     /\ lock.rest = <<>>
     /\ ~lock.blocked
     /\ notify
     /\ lock' = [lock EXCEPT !.blocked = TRUE]
     /\ calls' = <<b.text>>
     /\ UNCHANGED <<engine, sock, pc, polls, in_feed, cur, batch, audio, wire, last,
                    log, app, ghost, echo_closed>>

\* ----------------------------------------------------- process_audio_stream
\* int16 frames from the microphone.
AudioFrames == {<<0, 0>>, <<327, 0 - 100>>, <<328>>, <<0 - 5000, 12>>, <<>>}

Abs(x) == IF x < 0 THEN 0 - x ELSE x
Peak(samples) == CHOOSE m \in {Abs(samples[i]) : i \in 1..Len(samples)} :
                   \A i \in 1..Len(samples) : Abs(samples[i]) <= m

\* np.max(np.abs(int16 / 32768.0)) < 0.01
TooQuiet(samples) == Peak(samples) * 100 < 32768

\* A frame that gets past the amplitude test of line 287.
Loud(samples) == samples # <<>> /\ ~TooQuiet(samples)

\* Faulty variant: the bytes are written to the socket without looking at the
\* connection.
FeedProcessWritesAlways(samples) ==
  IF samples = <<>>
    THEN /\ log' = "audio_error"
         /\ wire' = wire
  ELSE IF TooQuiet(samples) THEN UNCHANGED <<wire, log>>
  ELSE /\ wire' = Append(wire, [sock |-> websocket_client,
                                 opcode |-> "binary", data |-> "pcm"])
       /\ log' = log

\* Lines 271-320, for a frame that got past the initialisation.
FeedProcess(samples) ==
  IF samples = <<>>
    THEN \* np.max of an empty array raises; the except prints it
         /\ log' = "audio_error"
         /\ wire' = wire
  ELSE IF TooQuiet(samples) THEN UNCHANGED <<wire, log>>
  ELSE IF transcription_service /\ is_connected THEN SendEffect("pcm")
  ELSE UNCHANGED <<wire, log>>

\* process_audio_stream(None, key): the stored transcript is returned.
FeedNothing ==
  /\ pc = "idle"
  /\ last' = [op |-> "feed", ok |-> TRUE]
  /\ UNCHANGED <<engine, sock, pc, polls, in_feed, cur, batch, rx, audio, wire, log, app, ghost,
                 echo_closed>>

\* process_audio_stream with a blank API key before the recording started:
\* initialize_transcription_service returns False at line 248.
FeedNoKey ==
  /\ pc = "idle"
  /\ ~is_recording
  /\ last' = [op |-> "feed", ok |-> FALSE]
  /\ UNCHANGED <<engine, sock, pc, polls, in_feed, cur, batch, rx, audio, wire, log, app, ghost,
                 echo_closed>>

\* process_audio_stream(frame, key), first frame of a recording: lines 267-268
\* run initialize_transcription_service, which creates the engine, marks the
\* recording started and calls _connect, before the frame is looked at.
FeedFirst(samples) ==
  /\ pc = "idle"
  /\ ~is_recording
  /\ transcription_service' = TRUE
  /\ transcription_callback' = (transcription_service => transcription_callback)
  /\ is_recording' = TRUE
  /\ live_transcription' = <<>>
  /\ ConnectStart
  /\ in_feed' = TRUE
  /\ cur' = [held |-> TRUE, samples |-> samples]
  /\ UNCHANGED <<is_connected, segments, stop_event, batch, rx, audio, wire, last, log,
                 ghost>>

\* _connect has returned into process_audio_stream: on False the frame is
\* answered with the failure message, on True it is processed.
FeedAfterConnect ==
  /\ pc = "connect_ret"
  /\ in_feed
  /\ Len(wire) < MaxWire
  /\ IF is_connected
       THEN FeedProcess(cur.samples) /\ last' = [op |-> "feed", ok |-> TRUE]
       ELSE UNCHANGED <<wire, log>> /\ last' = [op |-> "feed", ok |-> FALSE]
  /\ pc' = "idle"
  /\ in_feed' = FALSE
  /\ cur' = NoFrame
  /\ UNCHANGED <<engine, sock, polls, batch, rx, audio, app, ghost, echo_closed>>

\* Faulty variant: a frame that finds the engine disconnected starts a new
\* connection before it is dropped.
FeedNextReconnects(samples) ==
  /\ pc = "idle"
  /\ is_recording
  /\ Len(wire) < MaxWire
  /\ FeedProcess(samples)
  /\ last' = [op |-> "feed", ok |-> TRUE, loud |-> Loud(samples)]
  /\ IF ~is_connected /\ (\E s \in Sockets : sock[s] = "unused")
       THEN /\ websocket_client' = FreeSocket
            /\ sock' = [sock EXCEPT ![FreeSocket] = "connecting"]
            /\ UNCHANGED <<is_connected, segments, stop_event,
                           transcription_callback>>
       ELSE UNCHANGED <<engine, sock>>
  /\ UNCHANGED <<pc, polls, in_feed, cur, batch, rx, audio, app, ghost, echo_closed>>

\* process_audio_stream(frame, key) once the recording has started.
FeedNext(samples) ==
  /\ pc = "idle"
  /\ is_recording
  /\ Len(wire) < MaxWire
  /\ FeedProcess(samples)
  /\ last' = [op |-> "feed", ok |-> TRUE, loud |-> Loud(samples)]
  /\ UNCHANGED <<engine, sock, pc, polls, in_feed, cur, batch, rx, audio, app, ghost, echo_closed>>

\* ---------------------------------------------------- transcribe_audio_file
\* A recording: whether sf.read can load it, and its length in chunks.
Recordings ==
  {[readable |-> TRUE, n |-> k] : k \in 0..MaxChunks}
    \cup {[readable |-> FALSE, n |-> 0]}

\* The i-th chunk of the recording's bytes.
ChunkOf(i) == <<"pcm", i>>
\* json.dumps({"checkpoint_id": "final"})
FinalMessage == <<"final">>
MarkerFrame(client) == [sock |-> client, opcode |-> "text", data |-> FinalMessage]

\* transcribe_audio_file(path): line 33 calls _connect.
TranscribeBegin(rec) ==
  /\ pc = "idle"
  /\ ConnectStart
  /\ in_feed' = FALSE
  /\ batch' = [on |-> TRUE, readable |-> rec.readable, n |-> rec.n,
               next |-> 0, waits |-> 0]
  /\ wire' = <<>>
  /\ UNCHANGED <<is_connected, segments, stop_event, transcription_callback,
                 cur, rx, audio, last, log, app, ghost>>

\* Lines 33-34: _connect returned False and transcribe_audio_file raises; the
\* try block is not entered, so _disconnect is not called.
TranscribeConnectFailed ==
  /\ pc = "connect_ret"
  /\ batch.on
  /\ ~is_connected
  /\ last' = [op |-> "transcribe", ok |-> FALSE, text |-> <<>>]
  /\ pc' = "idle"
  /\ polls' = 0
  /\ batch' = [batch EXCEPT !.on = FALSE]
  /\ UNCHANGED <<engine, sock, in_feed, cur, rx, audio, wire, log, app, ghost,
                 echo_closed>>

\* Lines 36-38: _connect returned True; _stream_audio_file is entered.
TranscribeStreams ==
  /\ pc = "connect_ret"
  /\ batch.on
  /\ is_connected
  /\ pc' = "stream"
  /\ polls' = 0
  /\ UNCHANGED <<engine, sock, in_feed, cur, batch, rx, audio, wire, last, log, app,
                 ghost, echo_closed>>

\* Lines 120, 141-142: the file cannot be loaded; the exception is printed and
\* _stream_audio_file returns without sending anything.
StreamFails ==
  /\ pc = "stream"
  /\ ~batch.readable
  /\ log' = "stream_error"
  /\ pc' = "batch_wait"
  /\ UNCHANGED <<engine, sock, polls, in_feed, cur, batch, rx, audio, wire, last, app,
                 ghost, echo_closed>>

\* Faulty variant: the loop does not look at the stop event.
StreamChunkIgnoresStop ==
  /\ pc = "stream"
  /\ batch.readable
  /\ batch.next < batch.n
  /\ SendOutcome(is_connected, websocket_client, ClientState).ok
  /\ SendEffect(ChunkOf(batch.next + 1))
  /\ batch' = [batch EXCEPT !.next = @ + 1]
  /\ UNCHANGED <<engine, sock, pc, polls, in_feed, cur, rx, audio, last, app, ghost,
                 echo_closed>>

\* Lines 127-136: one turn of the loop that sends a chunk and sleeps.
StreamChunk ==
  /\ pc = "stream"
  /\ batch.readable
  /\ batch.next < batch.n
  /\ ~stop_event
  /\ SendOutcome(is_connected, websocket_client, ClientState).ok
  /\ SendEffect(ChunkOf(batch.next + 1))
  /\ batch' = [batch EXCEPT !.next = @ + 1]
  /\ UNCHANGED <<engine, sock, pc, polls, in_feed, cur, rx, audio, last, app, ghost,
                 echo_closed>>

\* _send_final_checkpoint: the marker is written when there is a socket (the
\* flag is not looked at); a write that raises is printed.
CheckpointOutcome(client, st) ==
  IF client = None THEN [frames |-> 0, line |-> "none"]
  ELSE IF st = "open" THEN [frames |-> 1, line |-> "none"]
  ELSE [frames |-> 0, line |-> "checkpoint_error"]

\* Lines 127-139: the loop ends (no chunk left) or breaks (the stop event is
\* set, or the send returned False), and _send_final_checkpoint runs.
StreamFinish ==
  LET tried == batch.next < batch.n /\ ~stop_event
      o == SendOutcome(is_connected, websocket_client, ClientState)
      c == CheckpointOutcome(websocket_client, ClientState)
  IN /\ pc = "stream"
     /\ batch.readable
     /\ ~(tried /\ o.ok)
     /\ wire' = IF c.frames = 1 THEN Append(wire, MarkerFrame(websocket_client))
                ELSE wire
     /\ log' = IF c.line # "none" THEN c.line
               ELSE IF tried /\ o.line # "none" THEN o.line
               ELSE log
     /\ pc' = "batch_wait"
     /\ UNCHANGED <<engine, sock, polls, in_feed, cur, batch, rx, audio, last, app, ghost,
                    echo_closed>>

\* Faulty variant: the completion loop does not look at the elapsed time.
BatchWaitPollNoCeiling ==
  /\ pc = "batch_wait"
  /\ is_connected
  /\ batch' = [batch EXCEPT !.waits = @ + 1]
  /\ UNCHANGED <<engine, sock, pc, polls, in_feed, cur, rx, audio, wire, last, log, app,
                 ghost, echo_closed>>

\* Lines 43-44: one turn of the completion loop.
BatchWaitPoll ==
  /\ pc = "batch_wait"
  /\ is_connected
  /\ batch.waits < WaitPolls
  /\ batch' = [batch EXCEPT !.waits = @ + 1]
  /\ UNCHANGED <<engine, sock, pc, polls, in_feed, cur, rx, audio, wire, last, log, app,
                 ghost, echo_closed>>

\* Line 43: the loop ends on the cleared flag or on the ceiling.
BatchWaitExit ==
  /\ pc = "batch_wait"
  /\ ~is_connected \/ batch.waits >= WaitPolls
  /\ pc' = "batch_ret"
  /\ UNCHANGED <<engine, sock, polls, in_feed, cur, batch, rx, audio, wire, last, log, app,
                 ghost, echo_closed>>

\* Lines 47-51: _get_final_text, then the finally block calls _disconnect; the
\* text is returned, or the exception of _build_complete_text propagates.
TranscribeReturn ==
  LET b == BuildCompleteText(segments)
  IN /\ pc = "batch_ret"
     /\ DisconnectEffect
     /\ last' = [op |-> "transcribe", ok |-> ~b.raised, text |-> b.text]
     /\ pc' = "idle"
     /\ batch' = [batch EXCEPT !.on = FALSE]
     /\ UNCHANGED <<segments, transcription_callback, polls, in_feed, cur, rx, audio, wire,
                    log, app, ghost, echo_closed>>

\* ----------------------------------------------------------- specifications
\* Frames of the connection-level runs.
LinkFrames ==
  {GarbageFrame, FinalFrame, SegmentsFrame(<<Segment(<<"2">>, <<"h">>)>>),
   SegmentsFrame(<<Segment(<<"2">>, <<" ">>)>>)}

\* Frames of the assembler runs: every frame of at most MaxSegs sample entries.
AsmFrames ==
  {GarbageFrame, NonObjectFrame, FinalFrame, OtherCheckpointFrame}
    \cup {SegmentsFrame(es) : es \in SeqsUpTo(EntrySamples, MaxSegs)}
    \cup {FinalWithSegments(<<Segment(<<"2">>, <<"h">>)>>)}

\* An engine instance driven through its methods by one caller, with the
\* receive threads of its sockets.
Next ==
  \/ ConnectBegin
  \/ ConnectRaises
  \/ ConnectPoll
  \/ ConnectLoopExit
  \/ ConnectReturn
  \/ Disconnect
  \/ \E c \in Chunks : SendAudioChunk(c)
  \/ GetFinalText
  \/ \E s \in Sockets : OnOpen(s)
  \/ \E s \in Sockets : HandshakeFails(s)
  \/ \E s \in Sockets : RemoteClose(s)
  \/ \E s \in Sockets, f \in LinkFrames : OnMessage(s, f)

Spec == Init /\ [][Next]_vars

\* The receive thread of one session assembling the transcript.
NextAsm ==
  \/ ConnectBegin
  \/ \E s \in Sockets : OnOpen(s)
  \/ \E s \in Sockets, f \in AsmFrames : OnMessage(s, f)

SpecAsm == Init /\ [][NextAsm]_vars

\* The caller thread runs, and time.sleep returns.
FairSpec ==
  Spec /\ WF_vars(ConnectPoll) /\ WF_vars(ConnectLoopExit) /\ WF_vars(ConnectReturn)

\* The live path of the application: process_audio_stream is the only caller.
NextApp ==
  \/ FeedNothing
  \/ FeedNoKey
  \/ \E a \in AudioFrames : FeedFirst(a)
  \/ FeedAfterConnect
  \/ \E a \in AudioFrames : FeedNext(a)
  \/ ConnectPoll
  \/ ConnectLoopExit
  \/ \E s \in Sockets : OnOpen(s)
  \/ \E s \in Sockets : HandshakeFails(s)
  \/ \E s \in Sockets : RemoteClose(s)
  \/ \E s \in Sockets, f \in LinkFrames : OnMessage(s, f)

SpecApp == Init /\ [][NextApp]_vars

\* Frames of the batch runs: the checkpoint echo, a transcript update, and an
\* update whose segment id is not a number.
BatchFrames ==
  {FinalFrame, SegmentsFrame(<<Segment(<<"2">>, <<"h">>)>>),
   SegmentsFrame(<<Segment(BadId, <<"h">>)>>)}

\* Frames of the runs that follow _on_message inside its lock: two segments,
\* three entries the second of which has no text, and a blank text.
LockFrames ==
  {SegmentsFrame(<<Segment(<<"2">>, <<"h">>), Segment(<<"1", "0">>, <<" ", "w">>)>>),
   SegmentsFrame(<<Segment(<<"2">>, <<"h">>), NoTextEntry(<<"1", "0">>),
                   Segment(<<"1", "0">>, <<"h">>)>>),
   SegmentsFrame(<<Segment(<<"2">>, <<" ">>)>>)}

\* One caller that connects, registers a callback and reads the transcript,
\* and the receive threads going through _on_message statement by statement.
NextLock ==
  \/ ConnectBegin
  \/ ConnectLoopExit
  \/ ConnectReturn
  \/ SetCallback
  \/ GetFinalText
  \/ \E s \in Sockets : OnOpen(s)
  \/ \E s \in Sockets, f \in LockFrames : RxAcquire(s, f)
  \/ RxStore
  \/ RxRaise
  \/ \E raises \in BOOLEAN : RxFinish(raises)
  \/ \E s \in Sockets : OnMessage(s, FinalFrame)

SpecLock == Init /\ [][NextLock]_vars

\* A connected engine whose callbacks may read the transcript back from it, the
\* receive threads being scheduled.
NextReader ==
  \/ ConnectBegin
  \/ ConnectLoopExit
  \/ ConnectReturn
  \/ SetCallback
  \/ GetFinalText
  \/ \E s \in Sockets : OnOpen(s)
  \/ \E s \in Sockets, f \in LockFrames : RxAcquire(s, f)
  \/ RxStore
  \/ RxRaise
  \/ \E raises \in BOOLEAN : RxFinish(raises)
  \/ CallbackReadsTranscript

RxStep == RxStore \/ RxRaise \/ \E raises \in BOOLEAN : RxFinish(raises)

FairSpecReader == Init /\ [][NextReader]_vars /\ WF_vars(RxStep)

\* The batch path: transcribe_audio_file is the only caller.
NextBatch ==
  \/ \E rec \in Recordings : TranscribeBegin(rec)
  \/ ConnectPoll
  \/ ConnectLoopExit
  \/ TranscribeConnectFailed
  \/ TranscribeStreams
  \/ StreamFails
  \/ StreamChunk
  \/ StreamFinish
  \/ BatchWaitPoll
  \/ BatchWaitExit
  \/ TranscribeReturn
  \/ \E s \in Sockets : OnOpen(s)
  \/ \E s \in Sockets : HandshakeFails(s)
  \/ \E s \in Sockets : RemoteClose(s)
  \/ \E s \in Sockets, f \in BatchFrames : OnMessage(s, f)

SpecBatch == Init /\ [][NextBatch]_vars

\* A step of the thread that called transcribe_audio_file.
BatchCallerStep ==
  \/ ConnectPoll
  \/ ConnectLoopExit
  \/ TranscribeConnectFailed
  \/ TranscribeStreams
  \/ StreamFails
  \/ StreamChunk
  \/ StreamFinish
  \/ BatchWaitPoll
  \/ BatchWaitExit
  \/ TranscribeReturn

\* The calling thread runs, and time.sleep and the socket write return.
FairSpecBatch == SpecBatch /\ WF_vars(BatchCallerStep)


\* ------------------------------------------------------- audio preparation
TARGET_SAMPLE_RATE == 16000
CHUNK_SIZE_MS == 50

machine == <<engine, sock, pc, polls, in_feed, cur, batch, rx, wire, last, log,
             app, ghost, echo_closed>>

Min(a, b) == IF a <= b THEN a ELSE b

\* (audio_data * 32767).astype("int16").tobytes(): two bytes for each sample,
\* in sample order.  A byte is written as the pair of its sample's index and
\* its place in the sample, so that no two bytes of a stream are alike.
ToBytes(n) == [b \in 1..2 * n |-> <<(b + 1) \div 2, (b + 1) % 2>>]

\* Faulty variant: the chunk size counted in samples.
ChunkSizeInSamples == (CHUNK_SIZE_MS * TARGET_SAMPLE_RATE) \div 1000

\* Line 124: int(CHUNK_SIZE_MS * TARGET_SAMPLE_RATE * 2 / 1000).
ChunkSize == (CHUNK_SIZE_MS * TARGET_SAMPLE_RATE * 2) \div 1000

\* audio_bytes[lo : hi]
Slice(b, lo, hi) == SubSeq(b, lo + 1, Min(hi, Len(b)))

\* Sample counts of the recordings streamed: around each whole number of
\* chunks up to MaxChunks.
StreamSamples ==
  {n \in 0..(MaxChunks * (ChunkSize \div 2) + Spread) :
     \E k \in 0..MaxChunks, d \in 0..Spread :
       n = k * (ChunkSize \div 2) + d \/ n = k * (ChunkSize \div 2) - d}

\* _stream_audio_file has the bytes of a 16 kHz recording (line 121) and is
\* about to enter its loop.
InitPacer ==
  /\ InitEngine
  /\ stage = "bytes"
  /\ sample_rate = TARGET_SAMPLE_RATE
  /\ audio_len \in StreamSamples
  /\ audio_bytes = ToBytes(audio_len)
  /\ offset = 0
  /\ chunks_sent = <<>>

\* Lines 127-136, a turn of the loop over range(0, len(audio_bytes),
\* chunk_size) with the stop event clear and the send returning True.
SliceChunk ==
  /\ stage = "bytes"
  /\ offset < Len(audio_bytes)
  /\ chunks_sent' = Append(chunks_sent, Slice(audio_bytes, offset, offset + ChunkSize))
  /\ offset' = offset + ChunkSize
  /\ UNCHANGED <<machine, stage, sample_rate, audio_len, audio_bytes>>

\* The range is exhausted and the loop is left for line 139.
SliceEnd ==
  /\ stage = "bytes"
  /\ offset >= Len(audio_bytes)
  /\ stage' = "streamed"
  /\ UNCHANGED <<machine, sample_rate, audio_len, audio_bytes, offset, chunks_sent>>

NextPacer == SliceChunk \/ SliceEnd

SpecPacer == InitPacer /\ [][NextPacer]_vars

\* Rates of the audio read, and the lengths tried with each.  For these rates
\* the double product len * (16000 / rate) truncates to the exact quotient.
SampleRates == {8000, 11025, 16000, 22050, 32000, 44100, 48000}

\* Faulty variant: the length rounded to the nearest sample.
NewLengthRounded(len, rate) ==
  (2 * len * TARGET_SAMPLE_RATE + rate) \div (2 * rate)

\* Lines 107-108 and app.py 297-298: int(len(audio_data) * ratio).
NewLength(len, rate) == (len * TARGET_SAMPLE_RATE) \div rate

\* sf.read, or Gradio, has delivered audio_len samples at sample_rate.
InitResample ==
  /\ InitEngine
  /\ stage = "read"
  /\ sample_rate \in SampleRates
  /\ audio_len \in 0..MaxSamples
  /\ audio_bytes = <<>>
  /\ offset = 0
  /\ chunks_sent = <<>>

\* _process_audio_file, lines 105-115, and line 121: np.interp evaluated at
\* new_length points gives new_length samples.
ProcessAudioFile ==
  /\ stage = "read"
  /\ stage' = "file"
  /\ audio_bytes' = ToBytes(IF sample_rate # TARGET_SAMPLE_RATE
                              THEN NewLength(audio_len, sample_rate)
                              ELSE audio_len)
  /\ UNCHANGED <<machine, sample_rate, audio_len, offset, chunks_sent>>

\* process_audio_stream, app.py lines 296-307, for a frame that passed the
\* amplitude test: the frame is resampled only when new_length > 0.
LiveResample ==
  /\ stage = "read"
  /\ audio_len > 0
  /\ stage' = "live"
  /\ audio_bytes' = ToBytes(IF /\ sample_rate # TARGET_SAMPLE_RATE
                                /\ NewLength(audio_len, sample_rate) > 0
                              THEN NewLength(audio_len, sample_rate)
                              ELSE audio_len)
  /\ UNCHANGED <<machine, sample_rate, audio_len, offset, chunks_sent>>

NextResample == ProcessAudioFile \/ LiveResample

SpecResample == InitResample /\ [][NextResample]_vars

\* The application's engine used through both paths: the live feed, and
\* transcribe_audio_file called on the same instance once line 251 has created
\* it, with the receive threads delivering the checkpoint echo.
NextBoth ==
  \/ FeedNothing
  \/ FeedNoKey
  \/ \E a \in AudioFrames : FeedFirst(a)
  \/ FeedAfterConnect
  \/ \E a \in AudioFrames : FeedNext(a)
  \/ \E rec \in Recordings : transcription_service /\ TranscribeBegin(rec)
  \/ ConnectPoll
  \/ ConnectLoopExit
  \/ TranscribeConnectFailed
  \/ TranscribeStreams
  \/ StreamFails
  \/ StreamChunk
  \/ StreamFinish
  \/ BatchWaitPoll
  \/ BatchWaitExit
  \/ TranscribeReturn
  \/ \E s \in Sockets : OnOpen(s)
  \/ \E s \in Sockets : HandshakeFails(s)
  \/ \E s \in Sockets : RemoteClose(s)
  \/ \E s \in Sockets : OnMessage(s, FinalFrame)

SpecBoth == Init /\ [][NextBoth]_vars

\* ------------------------------------------------ reference for the claims
NonBlank(t) == \E i \in 1..Len(t) : t[i] # Space
NonEmpty(t) == Len(t) > 0

\* The segment map keyed by the number of each id.
ByNumber(segs) ==
  [n \in {IntOf(k) : k \in DOMAIN segs} |->
     segs[CHOOSE k \in DOMAIN segs : IntOf(k) = n]]

Top(m) == IF DOMAIN m = {} THEN 0
          ELSE CHOOSE n \in DOMAIN m : \A k \in DOMAIN m : k <= n

\* The texts of m for the numbers n..top in ascending order, the empty ones
\* left out, and the whitespace-only ones too unless keep_blank.
RECURSIVE Ascending(_, _, _, _)
Ascending(m, n, top, keep_blank) ==
  IF n > top THEN <<>>
  ELSE (IF n \in DOMAIN m /\ NonEmpty(m[n]) /\ (keep_blank \/ NonBlank(m[n]))
          THEN <<m[n]>> ELSE <<>>)
         \o Ascending(m, n + 1, top, keep_blank)

\* The parts with one space between neighbours.
RECURSIVE SpaceJoined(_)
SpaceJoined(parts) ==
  IF parts = <<>> THEN <<>>
  ELSE IF Len(parts) = 1 THEN parts[1]
  ELSE SpaceJoined(SubSeq(parts, 1, Len(parts) - 1)) \o <<Space>> \o parts[Len(parts)]

JoinOfNonBlank(m) == SpaceJoined(Ascending(m, 0, Top(m), FALSE))
JoinOfNonEmpty(m) == SpaceJoined(Ascending(m, 0, Top(m), TRUE))

\* ------------------------------------------------------------------ claims

\* C1 as stated: after every mutation of the segment map the assembled text
\* that _build_complete_text returns is the single-space join of the non-empty
\* segment texts in ascending numeric id order.  Refuted: a text of spaces
\* only is not empty, and the code leaves it out.
C1_JoinOfNonEmptyTexts ==
  LET b == BuildCompleteText(segments)
  IN ~b.raised => b.text = JoinOfNonEmpty(ByNumber(segments))

\* C1 amended: whenever _build_complete_text returns, the assembled text is
\* the single-space join, in ascending numeric id order, of the segment texts
\* that are not whitespace-only (text.strip() is non-empty).
C1_JoinOfNonBlankTexts ==
  LET b == BuildCompleteText(segments)
  IN ~b.raised => b.text = JoinOfNonBlank(ByNumber(segments))

\* C1 witness: ids 2 and 10 both hold words; the text has 2's before 10's.
C1_Witness ==
  /\ DOMAIN segments = ValidIds
  /\ segments[<<"2">>] = <<" ", "w">>
  /\ segments[<<"1", "0">>] = <<"h">>
  /\ BuildCompleteText(segments).text = <<" ", "w", " ", "h">>

\* The segment map after a frame carrying the one segment e.
After(segs, e) == OnMessageOutcome(segs, FALSE, SegmentsFrame(<<e>>)).segs

\* Two updates to distinct ids give the same text in either arrival order.
OrderIndependent ==
  \A e1 \in WellFormedEntries, e2 \in WellFormedEntries :
    e1.id # e2.id =>
      BuildCompleteText(After(After(segments, e1), e2))
        = BuildCompleteText(After(After(segments, e2), e1))

\* C2 as stated: for every sequence of Segment updates the assembled text is
\* the space join of the non-empty latest texts per id in ascending numeric id
\* order.  Refuted by a latest text of spaces only.
C2_LatestNonEmptyPerId ==
  ~tainted =>
    /\ ~BuildCompleteText(segments).raised
    /\ BuildCompleteText(segments).text = JoinOfNonEmpty(latest)

\* C2 amended: for every sequence of Segment updates the assembled text is the
\* space join of the latest text per id, the whitespace-only ones left out, in
\* ascending numeric id order; a later text for an id replaces the earlier
\* one, and updates to distinct ids commute.
C2_LatestNonBlankPerId ==
  ~tainted =>
    /\ ~BuildCompleteText(segments).raised
    /\ BuildCompleteText(segments).text = JoinOfNonBlank(latest)
    /\ OrderIndependent

\* C2 witness: the latest texts are "h" for 2 and " w" for 10, whatever came
\* first, and the text is "h" + " " + " w".
C2_Witness ==
  /\ ~tainted
  /\ DOMAIN latest = {2, 10}
  /\ latest[2] = <<"h">>
  /\ latest[10] = <<" ", "w">>
  /\ BuildCompleteText(segments).text = <<"h", " ", " ", "w">>

\* C3: processing a segments frame a second time leaves the segment map and
\* the assembled text as the first time left them.
C3_ReapplyIsIdempotent ==
  \A f \in AsmFrames :
    LET once == OnMessageOutcome(segments, transcription_callback, f)
        twice == OnMessageOutcome(once.segs, transcription_callback, f)
    IN /\ twice.segs = once.segs
       /\ BuildCompleteText(twice.segs) = BuildCompleteText(once.segs)
       /\ twice.text = once.text

\* C3 witness: a segment has been applied, and the frame that carries it again
\* finds the map holding two ids and leaves it as it is.
C3_Witness ==
  /\ Cardinality(DOMAIN segments) = 2
  /\ \E e \in WellFormedEntries :
       /\ NonBlank(e.text)
       /\ e.id \in DOMAIN segments
       /\ segments[e.id] = e.text
       /\ After(segments, e) = segments

\* C4: a frame that does not parse is printed and ignored: the segment map,
\* the assembled text and the connection are as they were, the call returns
\* into a receive loop that still runs, so later frames are processed.
C4_MalformedFrameIgnored ==
  [][\A s \in Sockets :
       OnMessage(s, GarbageFrame) =>
         /\ segments' = segments
         /\ BuildCompleteText(segments') = BuildCompleteText(segments)
         /\ UNCHANGED <<is_connected, websocket_client, stop_event, sock>>
         /\ sock'[s] = "open"
         /\ log' = "parse_failed"]_vars

\* C4 witness: a parse failure was printed on a connected engine whose
\* transcript is still there.
C4_Witness ==
  /\ log = "parse_failed"
  /\ Connected
  /\ sock[websocket_client] = "open"
  /\ segments # NoSegments

\* The frame a send of chunk puts on the wire.
BinaryFrame(chunk) ==
  [sock |-> websocket_client, opcode |-> "binary", data |-> chunk]

\* C5 as stated: _send_audio_chunk returns false, sends nothing and changes
\* nothing when not Connected, and when Connected sends the bytes as exactly
\* one binary frame and returns true.  Refuted when the flag is set and the
\* socket does not take the write.
C5_SendTrueWhenConnected ==
  [][\A c \in Chunks :
       SendAudioChunk(c) =>
         IF Connected
           THEN last'.ok /\ wire' = Append(wire, BinaryFrame(c))
           ELSE ~last'.ok /\ wire' = wire /\ log' = log
                /\ engine' = engine /\ sock' = sock]_vars

\* C5 amended: not Connected: false, nothing sent, nothing printed, no state
\* changed.  Connected and the socket takes the write: exactly one binary
\* frame with the bytes, and true.  Connected and the write raises: nothing
\* sent, false, no exception to the caller and no engine state changed.
C5_SendUnlessWriteFails ==
  [][\A c \in Chunks :
       SendAudioChunk(c) =>
         /\ engine' = engine /\ sock' = sock /\ pc' = "idle"
         /\ IF ~Connected THEN ~last'.ok /\ wire' = wire /\ log' = log
            ELSE IF sock[websocket_client] = "open"
              THEN last'.ok /\ wire' = Append(wire, BinaryFrame(c))
            ELSE ~last'.ok /\ wire' = wire]_vars

\* C5 witness: a send on a Connected engine whose socket was closed by the
\* other side returned false.
C5_Witness ==
  /\ last = [op |-> "send", ok |-> FALSE]
  /\ Connected
  /\ sock[websocket_client] = "closed"
  /\ log = "send_error"

Released == ~is_connected /\ websocket_client = None /\ stop_event

\* C7: _disconnect leaves the engine released, and called on a released
\* engine it changes nothing and closes no socket.
C7_DisconnectIdempotent ==
  [][Disconnect =>
       /\ Released'
       /\ (websocket_client # None => sock'[websocket_client] # "open")
       /\ (Released => engine' = engine /\ sock' = sock /\ wire' = wire /\ log' = log)]_vars

\* C7 witness: a _disconnect found no socket to close on an engine that an
\* earlier close had released, its socket closed.
C7_Witness ==
  /\ last = [op |-> "disconnect", ok |-> FALSE]
  /\ Released
  /\ \E s \in Sockets : sock[s] = "closed"

\* C8: right after _on_message handled a frame with checkpoint_id "final" the
\* engine is not Connected, the stop event is set and the socket is released.
C8_FinalCheckpointCloses ==
  [][\A s \in Sockets :
       OnMessage(s, FinalFrame) =>
         /\ ~Connected' /\ ~is_connected'
         /\ stop_event'
         /\ websocket_client' = None
         /\ (websocket_client # None => sock'[websocket_client] # "open")]_vars

\* C8 witness: the echo was handled on the session's socket, now closed.
C8_Witness ==
  /\ echo_closed
  /\ Released
  /\ \E s \in Sockets : sock[s] = "closed"
  /\ segments # NoSegments

\* C9 as stated: once the checkpoint echo closed the session, every later read
\* of the transcript gives the same text.  Refuted: a socket that an earlier
\* _connect of the same engine left behind is not closed and still delivers.
C9_StableAfterEcho ==
  [][(echo_closed /\ Released /\ echo_closed' /\ Released') =>
       BuildCompleteText(segments') = BuildCompleteText(segments)]_vars

\* C10 as stated: a live frame with a peak below 0.01 produces no send and
\* leaves the connection as it was, the first frame of a recording included.
\* Refuted by the first frame: line 268 starts the connection before line 287
\* looks at the amplitude.
C10_QuietFrameLeavesConnection ==
  [][\A a \in AudioFrames :
       (a # <<>> /\ TooQuiet(a) /\ (FeedFirst(a) \/ FeedNext(a))) =>
         /\ wire' = wire
         /\ UNCHANGED <<is_connected, websocket_client, sock>>]_vars

\* C11: a live frame handed to process_audio_stream while the engine of the
\* recording is not Connected is dropped: nothing is put on a socket, the call
\* returns the stored transcript and raises nothing, and the segment map, the
\* stored live transcript, the connection and the sockets are as they were.
C11_FrameDroppedWhileDisconnected ==
  [][\A a \in AudioFrames :
       (FeedNext(a) /\ ~Connected) =>
         /\ wire' = wire
         /\ last'.op = "feed" /\ last'.ok
         /\ pc' = "idle"
         /\ segments' = segments
         /\ live_transcription' = live_transcription
         /\ engine' = engine /\ sock' = sock
         /\ (a # <<>> => log' = log)]_vars

\* C11 witness: a loud frame was fed to an engine whose connect had timed out,
\* and nothing is on the wire.
C11_Witness ==
  /\ last = [op |-> "feed", ok |-> TRUE, loud |-> TRUE]
  /\ is_recording /\ transcription_service
  /\ ~Connected
  /\ wire = <<>>

\* The frames of the wire that went to socket s, in order.
FramesOn(s) == SelectSeq(wire, LAMBDA f : f.sock = s)

\* C12 as stated: a batch stream sends one end-of-stream marker, only after
\* every chunk of the recording has been sent, and no chunk after it.  Refuted
\* in the second part: the loop of _stream_audio_file breaks on a stop event
\* that an earlier session left set, and the marker is sent all the same.
C12_MarkerAfterEveryChunk ==
  /\ [][(StreamFinish /\ wire' # wire) => batch.next = batch.n]_vars
  /\ [](\A s \in Sockets :
          LET fs == FramesOn(s)
          IN \A i \in 1..Len(fs) :
               fs[i].opcode = "text" => i = Len(fs))

CeilingReached == batch.waits = WaitPolls /\ ~echo_closed

\* C14 as stated: a batch call that reaches the completion ceiling without the
\* checkpoint echo does not fail; it returns the text assembled from the
\* segments received so far.  Refuted when a stored segment id is not a
\* number: _get_final_text raises and the call fails.
C14_CeilingReturnsPartialText ==
  [][(TranscribeReturn /\ CeilingReached) =>
       /\ last'.ok
       /\ ~BuildCompleteText(segments).raised
       /\ last'.text = BuildCompleteText(segments).text]_vars

\* C15 as stated: whenever a session begins (_connect is called, a second time
\* or from a second transcribe_audio_file included) the segment map is empty
\* and the assembled text is empty.  Refuted: _connect resets nothing, and the
\* segments of the earlier session are still in the map.
C15_SessionStartsFresh ==
  [][(ConnectBegin \/ \E rec \in Recordings : TranscribeBegin(rec)) =>
       /\ segments' = NoSegments
       /\ BuildCompleteText(segments').text = <<>>]_vars

\* Every entry of a message that is a segment (it has an id and a text)
\* applied to segs, in order.
RECURSIVE EveryApplied(_, _)
EveryApplied(segs, entries) ==
  IF entries = <<>> THEN segs
  ELSE LET e == Head(entries)
           next == IF e.has_id /\ e.has_text
                     THEN [k \in DOMAIN segs \cup {e.id} |->
                             IF k = e.id THEN e.text ELSE segs[k]]
                     ELSE segs
       IN EveryApplied(next, Tail(entries))

\* C16 as stated: the receive thread changes the segment map and a reader
\* reads it only with the lock held, so what _get_final_text returns is the
\* text as it was before the last inbound message or after the whole of it,
\* never with only some of its segments applied.  Refuted: a message whose
\* second entry raises KeyError leaves its first segment stored and its third
\* not, and the lock is released on that state.
C16_ReaderSeesWholeMessages ==
  [][GetFinalText =>
       /\ ~lock.held
       /\ \/ last'.text = BuildCompleteText(lock.before).text
          \/ last'.text =
               BuildCompleteText(EveryApplied(lock.before, lock.all)).text]_vars

\* C17: when _on_message has applied the segments of a message and built the
\* text, it calls the registered callback exactly once, with the text that
\* reflects the whole message, if a callback is registered and the text is
\* not empty; with no callback or an empty text it calls nothing.
C17_CallbackOncePerUpdate ==
  [][\A raises \in BOOLEAN :
       (RxFinish(raises) /\ ~BuildCompleteText(segments).raised) =>
         LET text == BuildCompleteText(EveryApplied(lock.before, lock.all)).text
         IN /\ segments = EveryApplied(lock.before, lock.all)
            /\ IF transcription_callback /\ NonEmpty(text)
                 THEN calls' = <<text>>
                 ELSE calls' = <<>>]_vars

\* C17 witness: the message with segments 2 and 10 was applied and the
\* callback received "h" + " " + " w", once.
C17_Witness ==
  /\ transcription_callback
  /\ ~lock.held
  /\ Len(lock.all) = 2
  /\ segments = EveryApplied(lock.before, lock.all)
  /\ calls = << <<"h", " ", " ", "w">> >>

\* C18: when the callback raises, _on_message prints the exception and
\* returns: the segments of the message stay applied, the lock is released,
\* the socket and the connection are as they were, so the receive loop takes
\* the next message and readers get the lock.
C18_CallbackFaultContained ==
  [][(RxFinish(TRUE) /\ calls' # <<>>) =>
       /\ segments' = segments
       /\ segments = EveryApplied(lock.before, lock.all)
       /\ ~lock'.held
       /\ log' = "processing_error"
       /\ sock' = sock
       /\ UNCHANGED <<websocket_client, is_connected, stop_event,
                      transcription_callback, pc>>]_vars

\* C18 witness: the callback raised on the first text of the transcript (the
\* application's copy was not updated), and a read that came after returned
\* that text.
C18_Witness ==
  /\ calls # <<>>
  /\ live_transcription # calls[1]
  /\ log = "processing_error"
  /\ ~lock.held
  /\ lock.before = NoSegments
  /\ last.op = "get_final_text" /\ last.ok
  /\ last.text = calls[1]
  /\ \E s \in Sockets : sock[s] = "open"

\* C19 as stated: when the socket write of _send_audio_chunk raises (the
\* socket was closed under a Connected engine), the chunk is dropped, nothing
\* is raised to the caller, and the connection is marked as no longer
\* Connected.  Refuted in the last part: the except branch prints and returns
\* False, and is_connected stays set.
C19_SendErrorMarksLoss ==
  [][\A c \in Chunks :
       (SendAudioChunk(c) /\ Connected /\ sock[websocket_client] = "closed") =>
         /\ ~last'.ok
         /\ wire' = wire
         /\ pc' = "idle"
         /\ ~Connected']_vars

\* C20 as stated: once _connect has returned False for a session (the
\* handshake failed or timed out), that session never becomes Connected: no
\* later step sets is_connected for its socket.  Refuted: the socket of a
\* timed-out _connect is left running, and its on_open, when it comes, sets
\* the flag.
C20_FailedIsTerminal ==
  [][(/\ last = [op |-> "connect", ok |-> FALSE]
      /\ pc = "idle"
      /\ websocket_client # None) =>
       /\ ~OnOpen(websocket_client)
       /\ ~Connected']_vars

\* A step that puts an audio chunk on the wire.
SendsAudio ==
  Len(wire') > Len(wire) /\ wire'[Len(wire')].opcode = "binary"

\* C21: once the stop event is set (_disconnect was called), the loop of
\* _stream_audio_file sends no further audio chunk: the event is tested before
\* each send.
C21_NoChunkAfterStop ==
  [][stop_event => ~SendsAudio]_vars

\* C21 witness: the loop ended on the stop event alone, with chunks left to
\* send on a Connected engine whose socket is open, and no chunk went out.
C21_Witness ==
  /\ pc = "batch_wait"
  /\ stop_event
  /\ Connected /\ sock[websocket_client] = "open"
  /\ batch.readable /\ batch.next = 0 /\ batch.n = MaxChunks
  /\ \A i \in 1..Len(wire) : wire[i].opcode # "binary"

\* Sockets created by a step, and a send that the socket refused.
Created == {s \in Sockets : sock[s] = "unused" /\ sock'[s] # "unused"}
SendRefused ==
  /\ pc = "stream" /\ batch.readable /\ batch.next < batch.n /\ ~stop_event
  /\ ~SendOutcome(is_connected, websocket_client, ClientState).ok

\* C22: nothing is retried.  A socket is created only by the step that begins a
\* start request (the caller leaves idle for the connect wait), one socket per
\* request, so that a failed or timed-out connect is not attempted again; a
\* step of the batch loop whose send is refused leaves the loop without writing
\* anything, and the call writes no audio after the loop; a feed of a started
\* recording writes at most one frame and leaves the sockets, the engine's
\* socket and its connected flag as they were, whatever the connection's state.
C22_NothingRetried ==
  [][/\ Cardinality(Created) <= 1
     /\ Created # {} => pc = "idle" /\ pc' = "connect_wait"
     /\ (pc = "connect_wait" /\ pc' = "connect_ret" /\ ~is_connected')
          => sock' = sock /\ websocket_client' = websocket_client
     /\ SendRefused /\ pc' # pc => pc' = "batch_wait" /\ ~SendsAudio
     /\ pc \in {"batch_wait", "batch_ret"} => ~SendsAudio
     /\ (pc = "idle" /\ pc' = "idle" /\ is_recording /\ last' # last)
          => /\ Len(wire') <= Len(wire) + 1
             /\ sock' = sock
             /\ websocket_client' = websocket_client
             /\ is_connected' = is_connected]_vars

\* A recording whose connection was closed by the service, and a loud frame of
\* it fed afterwards: the one socket ever created is closed, the other unused.
C22_Witness ==
  /\ is_recording /\ pc = "idle"
  /\ last = [op |-> "feed", ok |-> TRUE, loud |-> TRUE]
  /\ echo_closed /\ ~is_connected /\ websocket_client = None
  /\ \E s \in Sockets : sock[s] = "closed"
  /\ \E s \in Sockets : sock[s] = "unused"

RECURSIVE Flatten(_)
Flatten(cs) == IF cs = <<>> THEN <<>> ELSE Head(cs) \o Flatten(Tail(cs))

\* C23: the chunk loop, with no stop and no refused send, cuts the byte stream
\* into chunks of 1600 bytes: at every turn each chunk but the latest has 1600
\* bytes, the latest has between 1 and 1600, the chunks laid end to end are the
\* bytes before the loop index, and when the loop is left they are the whole
\* stream.
C23_ChunksCoverStream ==
  stage \in {"bytes", "streamed"} =>
    /\ \A j \in 1..Len(chunks_sent) - 1 : Len(chunks_sent[j]) = 1600
    /\ chunks_sent # <<>> =>
         Len(chunks_sent[Len(chunks_sent)]) \in 1..1600
    /\ Flatten(chunks_sent) = SubSeq(audio_bytes, 1, Min(offset, Len(audio_bytes)))
    /\ stage = "streamed" => Flatten(chunks_sent) = audio_bytes

\* A stream of two whole chunks and a shorter third, all sent.
C23_Witness ==
  /\ stage = "streamed"
  /\ Len(chunks_sent) = 3
  /\ Len(chunks_sent[3]) < 1600
  /\ Len(audio_bytes) > 3200

\* Samples in the frame after the resampling step.
ResampledLength == Len(audio_bytes) \div 2

C25_ConnectedHasSocket ==
  is_connected => websocket_client # None

\* The socket created by the latest _connect (sockets are taken in order).
NewestSocket ==
  CHOOSE s \in Sockets :
    sock[s] # "unused" /\ \A t \in Sockets : t > s => sock[t] = "unused"

\* C26: _connect returns true only if the socket that this call created has
\* completed its handshake; the on_open of a socket left by an earlier attempt
\* cannot make it report success.
C26_TrueMeansOwnSocketOpened ==
  [][(ConnectReturn /\ is_connected) =>
       sock[NewestSocket] \in {"open", "closed"}]_vars

\* C27: a segments message is applied atomically.  If its processing fails (an
\* entry lacks id or text, or the text cannot be built because an id is not a
\* number) the segment map is as it was before the message; otherwise every
\* segment of the message is applied.
C27_MessageAppliedWhole ==
  [][\A s \in Sockets, f \in AsmFrames :
       (OnMessage(s, f) /\ CarriesSegments(f)) =>
         IF OnMessageOutcome(segments, transcription_callback, f).line
              = "processing_error"
           THEN segments' = segments
           ELSE segments' = EveryApplied(segments, f.segs)]_vars

\* C28: in every reachable state _get_final_text would return a string rather
\* than raise, whatever messages the receive thread has processed, and so a
\* transcribe_audio_file that connected returns a transcript.
C28_FinalTextNeverRaises ==
  /\ [](~BuildCompleteText(segments).raised)
  /\ [][TranscribeReturn => last'.ok /\ IsStr(last'.text)]_vars

\* C29: the receive loop never deadlocks on the transcript guard: a message
\* whose handler has taken the lock is finished and the lock released, also
\* when the registered callback reads the transcript through _get_final_text.
C29_HandlerReleasesLock ==
  lock.held ~> ~lock.held

\* C30: the stop signal of one session does not leak into the next.  When the
\* chunk loop of a transcribe_audio_file is left with the engine connected and
\* its socket open (the connect succeeded and no send was refused), every
\* chunk of the recording has been sent; the end-of-stream marker follows.
C30_StopDoesNotLeak ==
  [][(/\ StreamFinish
      /\ batch.readable
      /\ Connected
      /\ sock[websocket_client] = "open") => batch.next = batch.n]_vars
====
